---- MODULE Spec2Model ----
(***************************************************************************)
(* Model of the activity monitor of aryan01104/guide: the sentence mapper, *)
(* the classification cache and service client, the Streak tracker, the    *)
(* batch driver (evaluator.py: process) and the live tail (both.py:        *)
(* evaluate_live).                                                         *)
(*                                                                         *)
(* Python strings are sequences of tokens (<<"Used", " ", "Writer">>), so  *)
(* that splitting, stripping and prefix tests are computed.  A dict is a   *)
(* sequence of <<key, value>> pairs in insertion order.                    *)
(***************************************************************************)
EXTENDS Integers, Sequences, FiniteSets, TLC

VARIABLES
    streak,     \* the Streak object: [pos, neg, state]
    hist,       \* the last STREAK_LEN Streak.update calls of the session
    exc,        \* the exception that escaped to the driver, or "none"
    cache,      \* the files of CACHE_DIR: cache path -> file content
    writable,   \* whether CACHE_DIR accepts writes
    seen,       \* SpecClassify: per sentence, the first value classify returned in this session
    lastCall,   \* SpecClassify: the latest classify call of the session (empty before the first)
    sess,       \* SpecShared: per session, its position in classify, its res and what it returned
    rows,       \* batch driver: the data rows of the input frame
    idx,        \* batch driver: number of rows iterated in this run
    run,        \* batch driver: 1 = run on the cold cache, 2 = on the warm one
    traj,       \* batch driver: per run, the <<Classification, StreakState>> of each row
    limit,      \* batch driver: the limit argument, <<>> for None, <<L>> for an int
    enriched,   \* batch driver: the list of enriched rows
    out,        \* batch driver: the rows of the output file, in a list once written
    log,        \* live tail: the lines of LOG_PATH, each a list of fields
    fpos,       \* live tail: number of lines the file object has handed out
    fieldnames, \* live tail: DictReader._fieldnames (None until first read)
    pc,         \* live tail: position of evaluate_live
    tail_start, \* live tail: the tail_start argument
    present,    \* live tail: whether LOG_PATH exists
    openLen,    \* live tail: number of lines in the log when it was opened
    skipEnd,    \* live tail: number of lines consumed by the initial skip
    processed,  \* live tail: indices of the lines handed to classify, in order
    no_log,     \* main: the --no-log argument
    mpc,        \* main: position of the main thread
    lpc,        \* main: position of the logger thread
    stop_evt,   \* main: whether the stop event is set
    fopen,      \* main: whether the file evaluate_live reads is open
    sig,        \* main: the interrupt signal: "none", "pending", "raised"
    naps        \* main: sleeps the logger thread began with the stop event set

streakVars == <<streak, hist, exc>>
cacheVars  == <<cache, writable, seen, lastCall, sess>>
batchVars  == <<rows, idx, run, traj, limit, enriched, out>>
mainVars   == <<no_log, mpc, lpc, stop_evt, fopen, sig, naps>>
tailVars   == <<log, fpos, fieldnames, pc, tail_start, present, openLen, skipEnd, processed,
                 mainVars>>
vars       == <<streakVars, cacheVars, batchVars, tailVars>>

-----------------------------------------------------------------------------
(* Bounds of the model *)

MaxCount == 5      \* cap on the Streak counters
MaxRows  == 3      \* data rows of a batch input
MaxLines == 4      \* lines of the log file
MaxOpenRows == 2   \* data rows in the log when it is opened
MaxAppend == 8     \* tokens the producer appends to the text of the log
MaxNaps == 2       \* cap on the count of the logger's sleeps after the stop event

-----------------------------------------------------------------------------
(* Tunables *)

POS_THRESH == 4
NEG_THRESH == -4
STREAK_LEN == 3

\* The scores the rubric allows ("score - integer -5...5").
Scores == (0 - 5) .. 5

None == <<"None">>

-----------------------------------------------------------------------------
(* Streak tracker *)

\* Streak.__init__
StreakNew == [pos |-> 0, neg |-> 0, state |-> "neutral"]

\* A Streak.update call in progress: the object's fields, the messages passed
\* to notify so far, and the exception raised (the rest of the body is then
\* not executed).  failAt = k makes the k-th notify call of this update raise;
\* failAt = 0 makes every call return.
UpdateFrame(s, failAt) ==
    [pos |-> s.pos, neg |-> s.neg, state |-> s.state,
     notes |-> <<>>, exc |-> "none", failAt |-> failAt]

\* notify(msg): returns, or raises out of update.
Notify(u, msg) ==
    IF Len(u.notes) + 1 = u.failAt
    THEN [u EXCEPT !.notes = Append(@, msg), !.exc = "NotifierError"]
    ELSE [u EXCEPT !.notes = Append(@, msg)]

\* "decide bucket"
BucketMutNoReset(u, score) ==
    IF score >= POS_THRESH THEN [u EXCEPT !.pos = @ + 1, !.neg = 0]
    ELSE IF score <= NEG_THRESH THEN [u EXCEPT !.neg = @ + 1, !.pos = 0]
    ELSE u

\* "decide bucket" that leaves the opposite counter as it was
BucketMutKeepOpposite(u, score) ==
    IF score >= POS_THRESH THEN [u EXCEPT !.pos = @ + 1]
    ELSE IF score <= NEG_THRESH THEN [u EXCEPT !.neg = @ + 1]
    ELSE [u EXCEPT !.pos = 0, !.neg = 0]

Bucket(u, score) ==
    IF score >= POS_THRESH THEN [u EXCEPT !.pos = @ + 1, !.neg = 0]
    ELSE IF score <= NEG_THRESH THEN [u EXCEPT !.neg = @ + 1, !.pos = 0]
    ELSE [u EXCEPT !.pos = 0, !.neg = 0]

\* a statement "notify(msg); self.state = st" guarded by cond
NotifyThenSet(u, cond, msg, st) ==
    IF u.exc = "none" /\ cond
    THEN LET n == Notify(u, msg)
         IN  IF n.exc = "none" THEN [n EXCEPT !.state = st] ELSE n
    ELSE u

SustainedGoodMutEarly(u) ==
    NotifyThenSet(u, u.pos = STREAK_LEN - 1 /\ u.state # "good", "sustained_good", "good")

SustainedGoodMutNoTrendTest(u) ==
    NotifyThenSet(u, u.pos = STREAK_LEN, "sustained_good", "good")

SustainedGood(u) ==
    NotifyThenSet(u, u.pos = STREAK_LEN /\ u.state # "good", "sustained_good", "good")

SustainedBadMutEarly(u) ==
    NotifyThenSet(u, u.neg = STREAK_LEN - 1 /\ u.state # "bad", "sustained_bad", "bad")

SustainedBad(u) ==
    NotifyThenSet(u, u.neg = STREAK_LEN /\ u.state # "bad", "sustained_bad", "bad")

FlipFromGoodMutKeepTrend(u) ==
    NotifyThenSet(u, u.state = "good" /\ u.neg = 1, "streak_broken", u.state)

FlipFromGoodMutSkipped(u) == u

FlipFromGood(u) ==
    NotifyThenSet(u, u.state = "good" /\ u.neg = 1, "streak_broken", "neutral")

FlipFromBad(u) ==
    NotifyThenSet(u, u.state = "bad" /\ u.pos = 1, "trend_reversal", "neutral")

\* Streak.update(score, sentence, reason)
Update(s, score, failAt) ==
    FlipFromBad(FlipFromGood(SustainedBad(SustainedGood(
        Bucket(UpdateFrame(s, failAt), score)))))

StreakOf(u) == [pos |-> u.pos, neg |-> u.neg, state |-> u.state]

\* The sustained notifications of the session that no reversal has answered
\* yet, after the notify calls of one more update.
NoneOwed == [good |-> FALSE, bad |-> FALSE]

RECURSIVE Owed(_, _)
Owed(owed, notes) ==
    IF Len(notes) = 0 THEN owed
    ELSE Owed(IF Head(notes) = "sustained_good" THEN [owed EXCEPT !.good = TRUE]
              ELSE IF Head(notes) = "streak_broken" THEN [owed EXCEPT !.good = FALSE]
              ELSE IF Head(notes) = "sustained_bad" THEN [owed EXCEPT !.bad = TRUE]
              ELSE [owed EXCEPT !.bad = FALSE],
              Tail(notes))

\* the window of the last STREAK_LEN updates, each with what was owed
\* before it and after it
Remember(h, e) ==
    LET before == IF Len(h) = 0 THEN NoneOwed ELSE h[Len(h)].owed
        entry  == [pre |-> e.pre, score |-> e.score, notes |-> e.notes, exc |-> e.exc,
                   owedPre |-> before, owed |-> Owed(before, e.notes)]
    IN  IF Len(h) < STREAK_LEN THEN Append(h, entry) ELSE Append(Tail(h), entry)

HistEntry(s, score, u) ==
    [pre |-> s, score |-> score, notes |-> u.notes, exc |-> u.exc]

-----------------------------------------------------------------------------
(* Python values *)

\* str: a sequence of tokens.  The separator and the blank are tokens of
\* their own; every other token stands for a run of ordinary characters.
PIPE == "|"
SPACE == " "

\* a value of a Classification dict: an int or a str, in one record shape
PyInt(n) == [t |-> "int", n |-> n, s |-> <<>>]
PyStr(s) == [t |-> "str", n |-> 0, s |-> s]

\* dict: <<key, value>> pairs in insertion order, keys unique
DictHas(d, k) == \E i \in 1..Len(d) : d[i][1] = k

DictGet(d, k) == d[CHOOSE i \in 1..Len(d) : d[i][1] = k][2]

\* d[k] = v
DictSet(d, k, v) ==
    IF DictHas(d, k)
    THEN [i \in 1..Len(d) |-> IF d[i][1] = k THEN <<k, v>> ELSE d[i]]
    ELSE Append(d, <<k, v>>)

\* d.values()
DictValues(d) == [i \in 1..Len(d) |-> d[i][2]]

\* dict(zip(keys, values)): stops at the shorter, a repeated key keeps its
\* first position and its last value
RECURSIVE DictZip(_, _)
DictZip(keys, values) ==
    IF Len(keys) = 0 \/ Len(values) = 0 THEN <<>>
    ELSE LET n == IF Len(keys) < Len(values) THEN Len(keys) ELSE Len(values)
         IN  DictSet(DictZip(SubSeq(keys, 1, n - 1), SubSeq(values, 1, n - 1)),
                     keys[n], values[n])

\* s.startswith(prefix)
StartsWith(s, prefix) ==
    Len(s) >= Len(prefix) /\ SubSeq(s, 1, Len(prefix)) = prefix

\* text.split("|")[0]
RECURSIVE SplitFirst(_)
SplitFirst(text) ==
    IF Len(text) = 0 \/ Head(text) = PIPE THEN <<>>
    ELSE <<Head(text)>> \o SplitFirst(Tail(text))

RECURSIVE LStrip(_)
LStrip(text) ==
    IF Len(text) > 0 /\ Head(text) = SPACE THEN LStrip(Tail(text)) ELSE text

RECURSIVE RStrip(_)
RStrip(text) ==
    IF Len(text) > 0 /\ text[Len(text)] = SPACE
    THEN RStrip(SubSeq(text, 1, Len(text) - 1)) ELSE text

\* text.strip()
Strip(text) == RStrip(LStrip(text))

-----------------------------------------------------------------------------
(* Sentence mapper *)

\* a value that is not a str (pandas gives a float NaN for an empty cell)
NaN == <<"float:nan">>

IsStr(v) == v # NaN

first_clause(text) == IF IsStr(text) THEN SplitFirst(text) ELSE text

K_timestamp == <<"timestamp">>
K_event     == <<"event">>
K_details   == <<"details">>

Returned(v) == [exc |-> "none", val |-> v]
Raised(e)   == [exc |-> e, val |-> <<>>]

\* sentence_from_row(row): the sentence, or the exception it raises
sentence_from_row(row) ==
    IF ~DictHas(row, K_event) THEN Raised("KeyError:event")
    ELSE LET event   == DictGet(row, K_event)
             details == IF DictHas(row, K_details) THEN DictGet(row, K_details) ELSE <<>>
         IN  IF ~IsStr(event) THEN Raised("AttributeError")
             ELSE IF StartsWith(event, <<"browser_tab">>)
             THEN Returned(<<"Visited", SPACE, "\"">> \o first_clause(details)
                           \o <<"\"", SPACE, "in", SPACE, "browser">>)
             ELSE IF StartsWith(event, <<"app_switch">>)
             THEN IF IsStr(details)
                  THEN Returned(<<"Switched", SPACE, "to", SPACE>> \o Strip(first_clause(details)))
                  ELSE Raised("AttributeError")
             ELSE IF StartsWith(event, <<"app_usage">>)
             THEN IF IsStr(details)
                  THEN Returned(<<"Used", SPACE>> \o Strip(first_clause(details)))
                  ELSE Raised("AttributeError")
             ELSE Returned(event)

-----------------------------------------------------------------------------
(* JSON text *)

\* A JSON text is a sequence of tokens: the braces, a key, a value, or a
\* token that belongs to no JSON document.
JTok(kind, key, val) == [kind |-> kind, key |-> key, val |-> val]
LBRACE  == JTok("{", <<>>, PyInt(0))
RBRACE  == JTok("}", <<>>, PyInt(0))
JKey(k) == JTok("key", k, PyInt(0))
JVal(v) == JTok("val", <<>>, v)
GARBAGE == JTok("garbage", <<>>, PyInt(0))

RECURSIVE DumpPairs(_)
DumpPairs(d) ==
    IF Len(d) = 0 THEN <<>>
    ELSE <<JKey(d[1][1]), JVal(d[1][2])>> \o DumpPairs(Tail(d))

\* json.dumps(d) that loses the last member
JsonDumpsMutDropLast(d) ==
    <<LBRACE>> \o DumpPairs(SubSeq(d, 1, Len(d) - 1)) \o <<RBRACE>>

\* json.dumps(d), d a dict
JsonDumps(d) == <<LBRACE>> \o DumpPairs(d) \o <<RBRACE>>

\* the members of an object, read from the token after the opening brace:
\* the dict, or the failure to decode
RECURSIVE LoadPairs(_, _)
LoadPairs(text, d) ==
    IF Len(text) = 0 THEN Raised("JSONDecodeError")
    ELSE IF text[1] = RBRACE
    THEN IF Len(text) = 1 THEN Returned(d) ELSE Raised("JSONDecodeError")
    ELSE IF Len(text) >= 2 /\ text[1].kind = "key" /\ text[2].kind = "val"
    THEN LoadPairs(SubSeq(text, 3, Len(text)), DictSet(d, text[1].key, text[2].val))
    ELSE Raised("JSONDecodeError")

\* json.loads(text)
JsonLoads(text) ==
    IF Len(text) = 0 \/ text[1] # LBRACE THEN Raised("JSONDecodeError")
    ELSE LoadPairs(Tail(text), <<>>)

-----------------------------------------------------------------------------
(* Classification service client and cache *)

K_category == <<"category">>
K_score    == <<"score">>
K_reason   == <<"reason">>

CATEGORIES == {"deep_work", "learning", "research", "admin", "break_fun", "social", "vice"}

Classification(category, score, reason) ==
    << <<K_category, PyStr(<<category>>)>>,
       <<K_score, PyInt(score)>>,
       <<K_reason, PyStr(<<reason>>)>> >>

\* res = {"category":"unknown","score":0,"reason":"llm_error"}
Fallback == Classification("unknown", 0, "llm_error")

\* the shape the prompt asks for: exactly category, score, reason, the
\* category one of CATEGORIES or unknown, the score an int of -5..5
WellShaped(d) ==
    /\ Len(d) = 3
    /\ DictHas(d, K_category) /\ DictHas(d, K_score) /\ DictHas(d, K_reason)
    /\ LET c == DictGet(d, K_category)
       IN  c.t = "str" /\ \E x \in CATEGORIES \cup {"unknown"} : c.s = <<x>>
    /\ LET v == DictGet(d, K_score)
       IN  v.t = "int" /\ v.n \in Scores
    /\ DictGet(d, K_reason).t = "str"

\* What the completion request can come back with: an exception of the
\* client, or a message whose content is some text.
TransportError == [kind |-> "error", text |-> <<>>]
Body(text)     == [kind |-> "body", text |-> text]

\* the text of a JSON object as the service writes it
ServiceText(d) == <<LBRACE>> \o DumpPairs(d) \o <<RBRACE>>

ServiceOutcomes ==
    { TransportError,
      Body(<<GARBAGE>>),
      Body(ServiceText(Classification("deep_work", 5, "creates"))),
      Body(ServiceText(Classification("vice", 0 - 5, "herd"))),
      Body(ServiceText(Classification("admin", 1, "chores"))),
      \* the same members in another order
      Body(ServiceText(<< <<K_score, PyInt(4)>>, <<K_category, PyStr(<<"learning">>)>>,
                        <<K_reason, PyStr(<<"grows">>)>> >>)),
      \* a member missing
      Body(ServiceText(<< <<K_category, PyStr(<<"vice">>)>>, <<K_score, PyInt(0 - 4)>> >>)),
      \* a score outside -5..5 and a category outside the list
      Body(ServiceText(Classification("gaming", 9, "fun"))),
      \* a score that is no integer
      Body(ServiceText(<< <<K_category, PyStr(<<"social">>)>>, <<K_score, PyStr(<<"high">>)>>,
                        <<K_reason, PyStr(<<"chat">>)>> >>)) }

\* call_llm(activity, model): json.loads of the message content
call_llm(outcome) ==
    IF outcome.kind = "error" THEN Raised("APIError") ELSE JsonLoads(outcome.text)

\* cache_path(text): sha1 is taken to be injective, so the path names the text
cache_path(text) == <<".cache/">> \o text \o <<".json">>

Exists(files, p) == p \in DOMAIN files

\* p.write_text(text) on the files of CACHE_DIR
WriteText(files, p, text) == (p :> text) @@ files

\* The caching of classify with the write left out for the fallback.
ClassifyMutNoFallbackWrite(files, canWrite, activity, outcome) ==
    LET p == cache_path(activity)
    IN  IF Exists(files, p)
        THEN LET r == JsonLoads(files[p])
             IN  [exc |-> r.exc, val |-> r.val, files |-> files, called |-> FALSE]
        ELSE LET c   == call_llm(outcome)
                 res == IF c.exc = "none" THEN c.val ELSE Fallback
             IN  IF ~canWrite
                 THEN [exc |-> "OSError", val |-> <<>>, files |-> files, called |-> TRUE]
                 ELSE [exc |-> "none", val |-> res,
                       files |-> IF c.exc = "none"
                                 THEN WriteText(files, p, JsonDumps(res)) ELSE files,
                       called |-> TRUE]

\* classify(activity, model) when the service answers with outcome: the value
\* returned or the exception raised, the files of CACHE_DIR afterwards, and
\* whether the service was called.
classify(files, canWrite, activity, outcome) ==
    LET p == cache_path(activity)
    IN  IF Exists(files, p)
        THEN LET r == JsonLoads(files[p])
             IN  [exc |-> r.exc, val |-> r.val, files |-> files, called |-> FALSE]
        ELSE LET c   == call_llm(outcome)
                 res == IF c.exc = "none" THEN c.val ELSE Fallback
             IN  IF ~canWrite
                 THEN [exc |-> "OSError", val |-> <<>>, files |-> files, called |-> TRUE]
                 ELSE [exc |-> "none", val |-> res,
                       files |-> WriteText(files, p, JsonDumps(res)),
                       called |-> TRUE]


-----------------------------------------------------------------------------
(* The driver's call streak.update(res["score"], sent, res["reason"]) *)

\* which notify call of an update raises (0: none does)
NotifierFaults == {0, 1}

\* The subscripts are evaluated first (KeyError); a score that is no number
\* fails the first comparison of update (TypeError) before any assignment.
FeedStreak(s, res, failAt) ==
    IF ~DictHas(res, K_score) \/ ~DictHas(res, K_reason)
    THEN [exc |-> "KeyError:res", streak |-> s, updated |-> FALSE, u |-> UpdateFrame(s, failAt)]
    ELSE IF DictGet(res, K_score).t # "int"
    THEN [exc |-> "TypeError:score", streak |-> s, updated |-> FALSE, u |-> UpdateFrame(s, failAt)]
    ELSE LET u == Update(s, DictGet(res, K_score).n, failAt)
         IN  [exc |-> u.exc, streak |-> StreakOf(u), updated |-> TRUE, u |-> u]

-----------------------------------------------------------------------------
(* Parts of the state a specification does not use *)

CacheUnused ==
    /\ cache = <<>>
    /\ writable = TRUE
    /\ seen = <<>>
    /\ lastCall = <<>>
    /\ sess = <<>>

BatchUnused ==
    /\ rows = <<>>
    /\ idx = 0
    /\ run = 1
    /\ traj = << <<>>, <<>> >>
    /\ limit = <<>>
    /\ enriched = <<>>
    /\ out = <<>>

MainUnused ==
    /\ no_log = TRUE
    /\ mpc = "off"
    /\ lpc = "off"
    /\ stop_evt = FALSE
    /\ fopen = FALSE
    /\ sig = "none"
    /\ naps = 0

TailUnused ==
    /\ log = <<>>
    /\ fpos = 0
    /\ fieldnames = None
    /\ pc = "off"
    /\ tail_start = TRUE
    /\ present = TRUE
    /\ openLen = 0
    /\ skipEnd = 0
    /\ processed = <<>>
    /\ MainUnused

-----------------------------------------------------------------------------
(* SpecStreak: one Streak object fed arbitrary scores of -5..5, with a       *)
(* notifier that may raise.  An exception leaves update and, no caller      *)
(* catching it, ends the session; a new session starts with a new Streak.   *)

StreakInit ==
    /\ streak = StreakNew
    /\ hist = <<>>
    /\ exc = "none"
    /\ CacheUnused /\ BatchUnused /\ TailUnused

StreakUpdate ==
    \E score \in Scores, failAt \in NotifierFaults :
        /\ exc = "none"
        /\ score >= POS_THRESH => streak.pos < MaxCount
        /\ score <= NEG_THRESH => streak.neg < MaxCount
        /\ \E u \in {Update(streak, score, failAt)} :
               /\ streak' = StreakOf(u)
               /\ hist' = Remember(hist, HistEntry(streak, score, u))
               /\ exc' = u.exc
        /\ UNCHANGED <<cacheVars, batchVars, tailVars>>

StreakRestart ==
    /\ streak' = StreakNew
    /\ hist' = <<>>
    /\ exc' = "none"
    /\ UNCHANGED <<cacheVars, batchVars, tailVars>>

StreakNext == StreakUpdate \/ StreakRestart

SpecStreak == StreakInit /\ [][StreakNext]_vars

\* the last update of the session
Last == hist[Len(hist)]

\* the last STREAK_LEN updates all had scores in S
RunOf(S) == Len(hist) = STREAK_LEN /\ \A i \in 1..STREAK_LEN : hist[i].score \in S

Good == {x \in Scores : x >= POS_THRESH}
Bad  == {x \in Scores : x <= NEG_THRESH}

\* C1: three consecutive scores >= 4 fed to a fresh Streak: the 1st and 2nd
\* updates call notify not at all, the 3rd calls it exactly once, with the
\* sustained-positive message, and when that call returns trend is good.
C1_Promotion ==
    (RunOf(Good) /\ hist[1].pre = StreakNew) =>
        /\ hist[1].notes = <<>>
        /\ hist[2].notes = <<>>
        /\ hist[3].notes = <<"sustained_good">>
        /\ (exc = "none" => streak.state = "good")

C1_Witness ==
    /\ RunOf(Good) /\ hist[1].pre = StreakNew
    /\ exc = "none" /\ streak.state = "good"

\* C2: from any state with trend good, one score <= -4 makes exactly one
\* notify call, the streak-broken one, and sets trend to neutral; the second
\* negative in a row makes none; the third makes exactly one, the
\* sustained-negative one, and sets trend to bad.
C2_Reversal ==
    /\ (Len(hist) > 0 /\ Last.pre.state = "good" /\ Last.score \in Bad) =>
           /\ Last.notes = <<"streak_broken">>
           /\ (exc = "none" => streak.state = "neutral")
    /\ (RunOf(Bad) /\ hist[1].pre.state = "good") =>
           /\ hist[1].notes = <<"streak_broken">>
           /\ hist[2].notes = <<>>
           /\ hist[2].pre.state = "neutral"
           /\ hist[3].notes = <<"sustained_bad">>
           /\ (exc = "none" => streak.state = "bad")

C2_Witness ==
    /\ RunOf(Bad) /\ hist[1].pre.state = "good"
    /\ exc = "none" /\ streak.state = "bad"

\* C3: an update with a score strictly between NEG_THRESH and POS_THRESH
\* (0, the fallback score, among them) sets both counters to 0, calls notify
\* not at all and leaves trend as it was, from every reachable state.
C3_FallbackNeutral ==
    (Len(hist) > 0 /\ Last.score > NEG_THRESH /\ Last.score < POS_THRESH) =>
        /\ streak.pos = 0 /\ streak.neg = 0
        /\ Last.notes = <<>>
        /\ exc = "none"
        /\ streak.state = Last.pre.state

C3_Witness ==
    /\ Len(hist) > 0 /\ Last.score = 0
    /\ Last.pre.neg = 2 /\ Last.pre.state = "bad"
    /\ streak = [pos |-> 0, neg |-> 0, state |-> "bad"]

\* C8: a notifier failure inside update is swallowed: no exception reaches
\* the driver and the StreakState is the one a working notifier gives.
C8_NotifierFailureSwallowed ==
    Len(hist) > 0 =>
        /\ exc = "none"
        /\ streak = StreakOf(Update(Last.pre, Last.score, 0))

Promotions == {"sustained_good", "sustained_bad"}
Reversals  == {"streak_broken", "trend_reversal"}

\* C20: every Streak.update call, from every reachable StreakState and for
\* every score in -5..5, calls notify at most once; none calls it both with
\* a sustained message and with a reversal message.
C20_AtMostOneNotification ==
    \A i \in 1..Len(hist) :
        /\ Len(hist[i].notes) <= 1
        /\ ~(\E j, k \in 1..Len(hist[i].notes) :
                 hist[i].notes[j] \in Promotions /\ hist[i].notes[k] \in Reversals)

\* a promotion to bad followed by the reversal, each update with one call
C20_Witness ==
    /\ Len(hist) = STREAK_LEN /\ exc = "none"
    /\ hist[2].pre.neg = STREAK_LEN - 1 /\ hist[2].score \in Bad
    /\ hist[2].notes = <<"sustained_bad">>
    /\ hist[3].pre.state = "bad" /\ hist[3].score \in Good
    /\ hist[3].notes = <<"trend_reversal">>
    /\ streak = [pos |-> 1, neg |-> 0, state |-> "neutral"]

\* the notify calls of one update respect what is owed: a sustained message
\* only when none of its kind is unanswered, a reversal only to answer one
RECURSIVE Debounced(_, _)
Debounced(owed, notes) ==
    IF Len(notes) = 0 THEN TRUE
    ELSE /\ Head(notes) = "sustained_good" => ~owed.good
         /\ Head(notes) = "streak_broken" => owed.good
         /\ Head(notes) = "sustained_bad" => ~owed.bad
         /\ Head(notes) = "trend_reversal" => owed.bad
         /\ Debounced(Owed(owed, <<Head(notes)>>), Tail(notes))

\* C21: over every score sequence, a sustained-positive (sustained-negative)
\* notification is emitted only when every earlier one of the session has
\* been followed by a streak-broken (trend-reversal) notification, and a
\* streak-broken (trend-reversal) notification only when a sustained-positive
\* (sustained-negative) one is unanswered.
C21_Debounced ==
    \A i \in 1..Len(hist) : Debounced(hist[i].owedPre, hist[i].notes)

\* a sustained-positive notification with none owed, answered by the
\* streak-broken one at the next negative score, and a neutral score after
C21_Witness ==
    /\ Len(hist) = STREAK_LEN /\ exc = "none"
    /\ ~hist[1].owedPre.good /\ hist[1].notes = <<"sustained_good">>
    /\ hist[2].owedPre.good /\ hist[2].notes = <<"streak_broken">>
    /\ hist[3].score = 0 /\ hist[3].owed = NoneOwed
    /\ streak = StreakNew

\* C23: after every Streak.update call that returned, pos and neg are >= 0
\* and not both non-zero, trend good implies neg = 0 and trend bad implies
\* pos = 0.
C23_CounterInvariants ==
    exc = "none" =>
        /\ streak.pos >= 0 /\ streak.neg >= 0
        /\ ~(streak.pos > 0 /\ streak.neg > 0)
        /\ streak.state = "good" => streak.neg = 0
        /\ streak.state = "bad" => streak.pos = 0

\* trend good left at the first negative score
C23_Witness ==
    /\ Len(hist) > 0 /\ exc = "none"
    /\ Last.pre.state = "good" /\ Last.pre.pos >= STREAK_LEN /\ Last.score \in Bad
    /\ streak = [pos |-> 0, neg |-> 1, state |-> "neutral"]

-----------------------------------------------------------------------------
(* Raw events *)

\* a row as the list of its fields: timestamp, event, details
Row(ts, event, details) == <<ts, event, details>>

HEADER == <<K_timestamp, K_event, K_details>>

\* Two usage rows of the same application that differ in duration and
\* spacing (one sentence), and a browser snapshot.
Events ==
    { Row(<<"t">>, <<"app_usage">>, <<"Writer", PIPE, "900">>),
      Row(<<"t">>, <<"app_usage">>, <<SPACE, "Writer", SPACE, PIPE, "1200">>),
      Row(<<"t">>, <<"browser_tab", "_snapshot">>, <<"YouTube", PIPE, "url">>) }

\* the row as the mapper sees it: column name -> field
RowDict(fields) == DictZip(HEADER, fields)

SentenceOf(fields) == sentence_from_row(RowDict(fields)).val

-----------------------------------------------------------------------------
(* SpecClassify: one session calling classify, over a CACHE_DIR that an      *)
(* earlier session may have left with a complete or a truncated file and    *)
(* that may refuse writes.  An exception ends the session; the next session *)
(* finds the files as they are.                                             *)

StoredWriter == JsonDumps(Classification("deep_work", 4, "writes"))

InitialCaches ==
    { <<>> } \cup
    { (cache_path(SentenceOf(e)) :> text) :
          e \in {Row(<<"t">>, <<"app_usage">>, <<"Writer", PIPE, "900">>)},
          text \in {StoredWriter, SubSeq(StoredWriter, 1, 3), <<>>} }

ServiceFailed(outcome) == call_llm(outcome).exc # "none"

\* what classify makes of the outcome when it does call the service
Computed(outcome) == IF ServiceFailed(outcome) THEN Fallback ELSE call_llm(outcome).val

\* One classify call: the sentence, the exception or the value returned,
\* whether the service was called, whether the service's answer to this call
\* was a failure, whether that answer differs from the value returned, and
\* the first call of the session that returned for the same sentence, if any.
CallEntry(sent, outcome, r, before) ==
    [sent |-> sent, exc |-> r.exc, val |-> r.val, called |-> r.called,
     failed |-> ServiceFailed(outcome),
     other |-> r.exc = "none" /\ Computed(outcome) # r.val,
     prior |-> IF sent \in DOMAIN before THEN <<before[sent]>> ELSE <<>>]

\* the first returned call of each sentence is kept
Seen(before, sent, r) ==
    IF r.exc = "none" /\ sent \notin DOMAIN before
    THEN (sent :> [val |-> r.val, called |-> r.called]) @@ before
    ELSE before

ClassifyInit ==
    /\ cache \in InitialCaches
    /\ writable \in BOOLEAN
    /\ seen = <<>>
    /\ lastCall = <<>>
    /\ sess = <<>>
    /\ exc = "none"
    /\ streak = StreakNew /\ hist = <<>>
    /\ BatchUnused /\ TailUnused

ClassifyCall ==
    \E e \in Events, outcome \in ServiceOutcomes :
        /\ exc = "none"
        /\ \E sent \in {SentenceOf(e)} :
           \E r \in {classify(cache, writable, sent, outcome)} :
               /\ cache' = r.files
               /\ lastCall' = <<CallEntry(sent, outcome, r, seen)>>
               /\ seen' = Seen(seen, sent, r)
               /\ exc' = r.exc
        /\ UNCHANGED <<streak, hist, writable, sess, batchVars, tailVars>>

ClassifyRestart ==
    /\ seen' = <<>>
    /\ lastCall' = <<>>
    /\ exc' = "none"
    /\ UNCHANGED <<streak, hist, cache, writable, sess, batchVars, tailVars>>

ClassifyNext == ClassifyCall \/ ClassifyRestart

SpecClassify == ClassifyInit /\ [][ClassifyNext]_vars

\* C4: a classify call for a sentence that an earlier call of the session
\* returned a value for returns that value and does not call the service,
\* whatever the service would have answered.
C4_CacheHit ==
    \A i \in 1..Len(lastCall) :
        lastCall[i].prior # <<>> =>
            /\ lastCall[i].exc = "none"
            /\ lastCall[i].val = lastCall[i].prior[1].val
            /\ ~lastCall[i].called

C4_Witness ==
    /\ Len(lastCall) = 1
    /\ lastCall[1].prior # <<>> /\ lastCall[1].prior[1].called
    /\ lastCall[1].other /\ ~lastCall[1].failed
    /\ lastCall[1].val = lastCall[1].prior[1].val /\ ~lastCall[1].called

\* C6: classify never raises: every call returns, and returns the fallback
\* when the service call failed.
C6_NeverRaises ==
    \A i \in 1..Len(lastCall) :
        /\ lastCall[i].exc = "none"
        /\ (lastCall[i].called /\ lastCall[i].failed) => lastCall[i].val = Fallback

\* C7: every Classification classify returns or stores has the shape
\* {category, score, reason} with the score in -5..5 and the category known;
\* a deviating JSON answer is replaced by the fallback.
C7_ShapeValidated ==
    /\ \A i \in 1..Len(lastCall) :
           lastCall[i].exc = "none" => WellShaped(lastCall[i].val)
    /\ \A p \in DOMAIN cache :
           JsonLoads(cache[p]).exc = "none" => WellShaped(JsonLoads(cache[p]).val)

\* C24: a classify call whose service call failed, and that returned, has
\* left the fallback in the file of the sentence; and once the first call of
\* a sentence went that way, every later call for it returns the fallback
\* without calling the service, whatever the service would answer now.
C24_FallbackCached ==
    \A i \in 1..Len(lastCall) :
        /\ (lastCall[i].called /\ lastCall[i].failed /\ lastCall[i].exc = "none") =>
               /\ lastCall[i].val = Fallback
               /\ Exists(cache, cache_path(lastCall[i].sent))
               /\ cache[cache_path(lastCall[i].sent)] = JsonDumps(Fallback)
        /\ (lastCall[i].prior # <<>> /\ lastCall[i].prior[1].called
                /\ lastCall[i].prior[1].val = Fallback) =>
               /\ lastCall[i].exc = "none"
               /\ lastCall[i].val = Fallback
               /\ ~lastCall[i].called

\* the service failed for the first call and has an answer for a later one
C24_Witness ==
    /\ Len(lastCall) = 1 /\ lastCall[1].exc = "none"
    /\ lastCall[1].prior # <<>>
    /\ lastCall[1].prior[1].called /\ lastCall[1].prior[1].val = Fallback
    /\ ~lastCall[1].failed /\ lastCall[1].other
    /\ lastCall[1].val = Fallback /\ ~lastCall[1].called
    /\ cache[cache_path(lastCall[1].sent)] = JsonDumps(Fallback)

-----------------------------------------------------------------------------
(* SpecBatch: process (evaluator.py) run twice over the same rows, first on *)
(* an empty CACHE_DIR, then on the files the first run left, each run with  *)
(* a new Streak.  The service answers every call with any outcome; the      *)
(* notifier may raise.                                                      *)

RECURSIVE SeqsUpTo(_, _)
SeqsUpTo(S, n) ==
    IF n = 0 THEN {<<>>}
    ELSE LET shorter == SeqsUpTo(S, n - 1)
         IN  shorter \cup {Append(q, x) : q \in {r \in shorter : Len(r) = n - 1}, x \in S}

\* One iteration of "for _, row in df.iterrows()": the value classify
\* returned, the Streak afterwards, the exception that ended the run if one
\* did, the files of CACHE_DIR afterwards and whether the service was called.
ProcessRow(s, files, canWrite, fields, outcome, failAt) ==
    LET m == sentence_from_row(RowDict(fields))
    IN  IF m.exc # "none"
        THEN [exc |-> m.exc, res |-> <<>>, streak |-> s, files |-> files,
              called |-> FALSE, fed |-> FALSE, u |-> UpdateFrame(s, failAt)]
        ELSE LET r == classify(files, canWrite, m.val, outcome)
             IN  IF r.exc # "none"
                 THEN [exc |-> r.exc, res |-> <<>>, streak |-> s, files |-> r.files,
                       called |-> r.called, fed |-> FALSE, u |-> UpdateFrame(s, failAt)]
                 ELSE IF Len(DictValues(r.val)) # 3
                 \* row["ai_category"], row["ai_score"], row["ai_reason"] = res.values()
                 THEN [exc |-> "ValueError", res |-> r.val, streak |-> s, files |-> r.files,
                       called |-> r.called, fed |-> FALSE, u |-> UpdateFrame(s, failAt)]
                 ELSE LET f == FeedStreak(s, r.val, failAt)
                      IN  [exc |-> f.exc, res |-> r.val, streak |-> f.streak,
                           files |-> r.files, called |-> r.called, fed |-> f.updated,
                           u |-> f.u]

TrajEntry(o) ==
    [res |-> o.res, st |-> o.streak, exc |-> o.exc, called |-> o.called]

BatchInit ==
    /\ rows \in SeqsUpTo(Events, MaxRows) \ {<<>>}
    /\ idx = 0
    /\ run = 1
    /\ traj = << <<>>, <<>> >>
    /\ limit = <<>> /\ enriched = <<>> /\ out = <<>>
    /\ streak = StreakNew /\ hist = <<>> /\ exc = "none"
    /\ cache = <<>> /\ writable = TRUE /\ seen = <<>> /\ lastCall = <<>> /\ sess = <<>>
    /\ TailUnused

RunOver == idx = Len(rows) \/ exc # "none"

BatchRow ==
    \E outcome \in ServiceOutcomes, failAt \in NotifierFaults :
        /\ ~RunOver
        /\ \E o \in {ProcessRow(streak, cache, writable, rows[idx + 1], outcome, failAt)} :
               /\ idx' = idx + 1
               /\ cache' = o.files
               /\ streak' = o.streak
               /\ exc' = o.exc
               /\ hist' = IF o.fed
                          THEN Remember(hist, HistEntry(streak, DictGet(o.res, K_score).n, o.u))
                          ELSE hist
               /\ traj' = [traj EXCEPT ![run] = Append(@, TrajEntry(o))]
        /\ UNCHANGED <<rows, run, limit, enriched, out, writable, seen, lastCall, sess, tailVars>>

\* the second invocation of the program, on the cache the first one left
BatchSecondRun ==
    /\ run = 1 /\ RunOver
    /\ run' = 2
    /\ idx' = 0
    /\ streak' = StreakNew /\ hist' = <<>> /\ exc' = "none"
    /\ UNCHANGED <<rows, traj, limit, enriched, out, cache, writable, seen, lastCall, sess, tailVars>>

BatchNext == BatchRow \/ BatchSecondRun

SpecBatch == BatchInit /\ [][BatchNext]_vars

NotifierHeld(t) == \A i \in 1..Len(t) : t[i].exc # "NotifierError"

\* C5: the run on the warm cache repeats the run on the cold cache: row by
\* row the same Classification, and, the notifier holding in both runs, the
\* same StreakState and the same outcome, with no call to the service and,
\* once it is over, over the same number of rows.
C5_Idempotent ==
    run = 2 =>
        /\ \A i \in 1..Len(traj[2]) :
               i <= Len(traj[1]) => traj[2][i].res = traj[1][i].res
        /\ (NotifierHeld(traj[1]) /\ NotifierHeld(traj[2])) =>
               /\ Len(traj[2]) <= Len(traj[1])
               /\ \A i \in 1..Len(traj[2]) :
                      /\ traj[2][i].st = traj[1][i].st
                      /\ traj[2][i].exc = traj[1][i].exc
                      /\ ~traj[2][i].called
               /\ RunOver => Len(traj[2]) = Len(traj[1])

\* a repeated sentence, a service failure and a streak, run twice
C5_Witness ==
    /\ run = 2 /\ RunOver /\ exc = "none"
    /\ Len(traj[2]) = 3
    /\ traj[1][1].called /\ ~traj[1][2].called
    /\ traj[1][3].called /\ traj[1][3].res = Fallback
    /\ traj[2][2].st.pos = 2
    /\ traj[2][3].res = Fallback /\ ~traj[2][3].called

-----------------------------------------------------------------------------
(* SpecTail: evaluate_live reading LOG_PATH while a producer appends whole  *)
(* lines to it.  A line is the list of its fields.  The file object hands   *)
(* out lines in order, to the DictReader (the initial skip and the lazy     *)
(* read of the field names) and to f.readline() alike.                      *)

\* the answers of the service the tail is run against
TailOutcomes ==
    { TransportError,
      Body(ServiceText(Classification("deep_work", 5, "creates"))),
      Body(ServiceText(<< <<K_category, PyStr(<<"vice">>)>>, <<K_score, PyInt(0 - 4)>> >>)) }

Lines == Events \cup {HEADER}

LogsAtOpen ==
    {<<>>} \cup {<<HEADER>> \o q : q \in SeqsUpTo(Events, MaxOpenRows)}

TailInit ==
    /\ log \in LogsAtOpen
    /\ tail_start \in BOOLEAN
    /\ present = TRUE
    /\ pc = IF tail_start THEN "skip" ELSE "tail"
    /\ fpos = 0
    /\ fieldnames = None
    /\ openLen = Len(log)
    /\ skipEnd = 0
    /\ processed = <<>>
    /\ MainUnused
    /\ streak = StreakNew /\ hist = <<>> /\ exc = "none"
    /\ cache = <<>> /\ writable = TRUE /\ seen = <<>> /\ lastCall = <<>> /\ sess = <<>>
    /\ BatchUnused

\* the producer appends a row and flushes
ProducerAppend ==
    \E line \in Lines :
        /\ Len(log) < MaxLines
        /\ log' = Append(log, line)
        /\ UNCHANGED <<fpos, fieldnames, pc, tail_start, present, openLen, skipEnd, processed,
                       streakVars, cacheVars, batchVars, mainVars>>

\* the initial skip left before any line is taken
TailSkipMutLeavesAtOnce ==
    /\ pc = "skip"
    /\ pc' = "tail"
    /\ skipEnd' = fpos
    /\ UNCHANGED <<fpos, fieldnames>>
    /\ UNCHANGED <<log, tail_start, present, openLen, processed, streakVars, cacheVars, batchVars, mainVars>>

\* "for _ in reader: pass": the reader takes the next line, the first one it
\* ever takes being the field names; at end of file the loop is left.
TailSkip ==
    /\ pc = "skip"
    /\ IF fpos < Len(log)
       THEN /\ fpos' = fpos + 1
            /\ fieldnames' = IF fieldnames = None THEN log[fpos + 1] ELSE fieldnames
            /\ UNCHANGED <<pc, skipEnd>>
       ELSE /\ pc' = "tail"
            /\ skipEnd' = fpos
            /\ UNCHANGED <<fpos, fieldnames>>
    /\ UNCHANGED <<log, tail_start, present, openLen, processed, streakVars, cacheVars, batchVars, mainVars>>

\* reader.fieldnames after line n was handed out: set already, or read now
\* from the next line of the file, or left None at end of file
FieldnamesFrom(names, lines, n) ==
    IF names # None THEN [names |-> names, fpos |-> n]
    ELSE IF n < Len(lines) THEN [names |-> lines[n + 1], fpos |-> n + 1]
    ELSE [names |-> None, fpos |-> n]

\* row.get("timestamp") == "timestamp"
IsHeaderRow(row) == DictHas(row, K_timestamp) /\ DictGet(row, K_timestamp) = K_timestamp

\* One pass of the body of "while True" that found a line: what becomes of
\* the reader, whether the row was handed to classify, and the pipeline's
\* outcome.
TailBody(s, files, canWrite, names, lines, n, outcome, failAt) ==
    LET fn == FieldnamesFrom(names, lines, n + 1)
        quiet == [exc |-> "none", names |-> fn.names, fpos |-> fn.fpos, took |-> FALSE,
                  streak |-> s, files |-> files, fed |-> FALSE, score |-> 0,
                  u |-> UpdateFrame(s, failAt)]
    IN  IF fn.names = None
        \* zip(None, ...)
        THEN [quiet EXCEPT !.exc = "TypeError:fieldnames"]
        ELSE LET row == DictZip(fn.names, lines[n + 1])
             IN  IF IsHeaderRow(row) THEN quiet
                 ELSE LET m == sentence_from_row(row)
                      IN  IF m.exc # "none" THEN [quiet EXCEPT !.exc = m.exc]
                          ELSE LET r == classify(files, canWrite, m.val, outcome)
                               IN  IF r.exc # "none"
                                   THEN [quiet EXCEPT !.exc = r.exc, !.took = TRUE,
                                                      !.files = r.files]
                                   ELSE LET f == FeedStreak(s, r.val, failAt)
                                        IN  [quiet EXCEPT !.exc = f.exc, !.took = TRUE,
                                                          !.files = r.files,
                                                          !.streak = f.streak,
                                                          !.fed = f.updated,
                                                          !.score = IF f.updated
                                                                    THEN DictGet(r.val, K_score).n
                                                                    ELSE 0,
                                                          !.u = f.u]

\* "line = f.readline()" returning a line, and the rest of the loop body
TailStep ==
    \E outcome \in TailOutcomes, failAt \in NotifierFaults :
        /\ pc = "tail"
        /\ fpos < Len(log)
        /\ \E b \in {TailBody(streak, cache, writable, fieldnames, log, fpos, outcome, failAt)} :
               /\ fpos' = b.fpos
               /\ fieldnames' = b.names
               /\ processed' = IF b.took THEN Append(processed, fpos + 1) ELSE processed
               /\ streak' = b.streak
               /\ cache' = b.files
               /\ exc' = b.exc
               /\ hist' = IF b.fed THEN Remember(hist, HistEntry(streak, b.score, b.u))
                          ELSE hist
               /\ pc' = IF b.exc = "none" THEN "tail" ELSE "dead"
        /\ UNCHANGED <<log, tail_start, present, openLen, skipEnd, writable, seen, lastCall, sess,
                       batchVars, mainVars>>

TailNext == ProducerAppend \/ TailSkip \/ TailStep

SpecTail == TailInit /\ [][TailNext]_vars

\* the indices a+1..b of the lines that are not header lines, in order
RECURSIVE DataLines(_, _)
DataLines(a, b) ==
    IF b <= a THEN <<>>
    ELSE IF log[b] = HEADER THEN DataLines(a, b - 1)
    ELSE Append(DataLines(a, b - 1), b)

\* exceptions raised by the reading of rows (not by classify or the Streak)
ReadErrors == {"TypeError:fieldnames", "KeyError:event", "AttributeError"}

\* C9: with tail_start = False on a log that starts with the header, every
\* data line the file has handed out was given to the pipeline exactly once,
\* in file order, the header never, and reading raised nothing.
C9_ReplayHistory ==
    (~tail_start /\ pc # "off" /\ openLen >= 1) =>
        /\ processed = DataLines(0, fpos)
        /\ exc \notin ReadErrors

\* C10: with tail_start = True on a log that had its header when opened, no
\* line present at open time is handed to the pipeline, and the lines read
\* after the initial skip are, each data line exactly once and in append
\* order, the header lines among them not at all; reading raises nothing.
C10_ResumeFromNow ==
    (tail_start /\ openLen >= 1 /\ pc \in {"tail", "dead"}) =>
        /\ skipEnd >= openLen
        /\ processed = DataLines(skipEnd, fpos)
        /\ exc \notin ReadErrors
        /\ fieldnames = HEADER

C10_Witness ==
    /\ tail_start /\ openLen = 2 /\ pc = "tail"
    /\ skipEnd = 2 /\ Len(log) = 4 /\ fpos = 4
    /\ processed = <<3, 4>>

-----------------------------------------------------------------------------
(* SpecPartial: evaluate_live(tail_start=True) reading LOG_PATH while a     *)
(* producer appends to it in writes that need not end at a row boundary.    *)
(* Here the file is its text: the tokens of the fields, the commas and the  *)
(* line ends; fpos, openLen and skipEnd are offsets into the text and       *)
(* processed holds the field lists handed to the pipeline.                  *)

COMMA == ","
NL == "\n"

\* csv.writer.writerow(fields): the fields joined by commas and a line end
\* (no field of the model needs quoting)
RECURSIVE JoinFields(_)
JoinFields(fields) ==
    IF Len(fields) = 0 THEN <<>>
    ELSE IF Len(fields) = 1 THEN fields[1]
    ELSE fields[1] \o <<COMMA>> \o JoinFields(Tail(fields))

RowText(fields) == JoinFields(fields) \o <<NL>>

RECURSIVE FileText(_)
FileText(lines) ==
    IF Len(lines) = 0 THEN <<>> ELSE RowText(lines[1]) \o FileText(Tail(lines))

\* f.readline() at offset n: the text up to and including the next line
\* end, or up to the end of the file when no line end follows
RECURSIVE ReadLine(_, _)
ReadLine(text, n) ==
    IF n >= Len(text) THEN <<>>
    ELSE IF text[n + 1] = NL THEN <<NL>>
    ELSE <<text[n + 1]>> \o ReadLine(text, n + 1)

\* the fields of a line without its line end, split at the commas
RECURSIVE SplitCommas(_, _)
SplitCommas(body, field) ==
    IF Len(body) = 0 THEN <<field>>
    ELSE IF Head(body) = COMMA THEN <<field>> \o SplitCommas(Tail(body), <<>>)
    ELSE SplitCommas(Tail(body), Append(field, Head(body)))

\* next(csv.reader([line])): an empty line gives no field at all
ParseLine(line) ==
    LET body == IF Len(line) > 0 /\ line[Len(line)] = NL
                THEN SubSeq(line, 1, Len(line) - 1) ELSE line
    IN  IF Len(body) = 0 THEN <<>> ELSE SplitCommas(body, <<>>)

\* the number of line ends among the first n tokens
RECURSIVE CountNL(_, _)
CountNL(text, n) ==
    IF n = 0 THEN 0
    ELSE CountNL(text, n - 1) + (IF text[n] = NL THEN 1 ELSE 0)

\* the text after the last line end: the row being written, if any
RECURSIVE Fragment(_)
Fragment(text) ==
    IF Len(text) = 0 \/ text[Len(text)] = NL THEN <<>>
    ELSE Append(Fragment(SubSeq(text, 1, Len(text) - 1)), text[Len(text)])

PartialInit ==
    /\ log \in {FileText(l) : l \in LogsAtOpen \ {<<>>}}
    /\ tail_start = TRUE
    /\ present = TRUE
    /\ pc = "skip"
    /\ fpos = 0
    /\ fieldnames = None
    /\ openLen = Len(log)
    /\ skipEnd = 0
    /\ processed = <<>>
    /\ MainUnused
    /\ streak = StreakNew /\ hist = <<>> /\ exc = "none"
    /\ cache = <<>> /\ writable = TRUE /\ seen = <<>> /\ lastCall = <<>> /\ sess = <<>>
    /\ BatchUnused

\* one write of the producer reaching the file: the next k tokens of the
\* row it is writing, or of a new row
ProducerWrite ==
    \E line \in Lines :
        \E done \in {Len(Fragment(log))} :
        \E k \in 1..Len(RowText(line)) :
            /\ StartsWith(RowText(line), Fragment(log))
            /\ done + k <= Len(RowText(line))
            /\ Len(log) + k - openLen <= MaxAppend
            /\ log' = log \o SubSeq(RowText(line), done + 1, done + k)
            /\ UNCHANGED <<fpos, fieldnames, pc, tail_start, present, openLen, skipEnd, processed,
                           streakVars, cacheVars, batchVars, mainVars>>

\* "for _ in reader: pass" over the text: the reader takes what the file
\* hands out as the next line
PartialSkip ==
    /\ pc = "skip"
    /\ IF fpos < Len(log)
       THEN \E line \in {ReadLine(log, fpos)} :
                /\ fpos' = fpos + Len(line)
                /\ fieldnames' = IF fieldnames = None THEN ParseLine(line) ELSE fieldnames
                /\ UNCHANGED <<pc, skipEnd>>
       ELSE /\ pc' = "tail"
            /\ skipEnd' = fpos
            /\ UNCHANGED <<fpos, fieldnames>>
    /\ UNCHANGED <<log, tail_start, present, openLen, processed, streakVars, cacheVars, batchVars, mainVars>>

\* "line = f.readline()" returning text, and the rest of the loop body
PartialStep ==
    \E outcome \in TailOutcomes, failAt \in NotifierFaults :
        /\ pc = "tail"
        /\ fpos < Len(log)
        /\ \E line \in {ReadLine(log, fpos)} :
           \E b \in {TailBody(streak, cache, writable, fieldnames, <<ParseLine(line)>>, 0,
                              outcome, failAt)} :
               /\ fpos' = fpos + Len(line)
               /\ fieldnames' = b.names
               /\ processed' = IF b.took THEN Append(processed, ParseLine(line))
                                ELSE processed
               /\ streak' = b.streak
               /\ cache' = b.files
               /\ exc' = b.exc
               /\ hist' = IF b.fed THEN Remember(hist, HistEntry(streak, b.score, b.u))
                          ELSE hist
               /\ pc' = IF b.exc = "none" THEN "tail" ELSE "dead"
        /\ UNCHANGED <<log, tail_start, present, openLen, skipEnd, writable, seen, lastCall, sess,
                       batchVars, mainVars>>

PartialNext == ProducerWrite \/ PartialSkip \/ PartialStep

SpecPartial == PartialInit /\ [][PartialNext]_vars

\* the field lists of the complete lines a+1..b of the text that are not
\* header lines, in order
RECURSIVE WholeRows(_, _, _, _)
WholeRows(text, n, a, b) ==
    IF n >= Len(text) \/ b <= 0 THEN <<>>
    ELSE LET line == ReadLine(text, n)
         IN  IF line[Len(line)] # NL THEN <<>>
             ELSE (IF a <= 0 /\ ParseLine(line) # HEADER THEN <<ParseLine(line)>> ELSE <<>>)
                  \o WholeRows(text, n + Len(line), a - 1, b - 1)

\* C11: a row of which only a prefix is in the file when the tail polls or
\* skips is not handed to the pipeline; what the pipeline was handed is
\* exactly the whole rows completed after the initial skip and read so far,
\* each once and in order, and reading raises nothing.
C11_PartialRowTolerated ==
    pc \in {"tail", "dead"} =>
        /\ processed = WholeRows(log, 0, CountNL(log, skipEnd), CountNL(log, fpos))
        /\ exc \notin ReadErrors

-----------------------------------------------------------------------------
(* SpecProcess: one run of process (evaluator.py) on a cold cache: the      *)
(* frame pd.read_csv gives, cut to the limit, iterated row by row, and the  *)
(* enriched rows written once the loop is over.  A cell the file leaves     *)
(* empty is NaN in the frame; a header line repeated in the file is a row   *)
(* of the frame like any other.                                             *)

\* the rows pd.read_csv can deliver
ProcessLines ==
    { Row(<<"t">>, <<"app_usage">>, <<"Writer", PIPE, "900">>),
      Row(<<"t">>, <<"browser_tab", "_snapshot">>, <<"YouTube", PIPE, "url">>),
      HEADER,
      Row(<<"t">>, <<"app_usage">>, NaN),
      Row(<<"t">>, NaN, NaN) }

\* the answers of the service process is run against
ProcessOutcomes ==
    { TransportError,
      Body(ServiceText(Classification("deep_work", 5, "creates"))),
      Body(ServiceText(Classification("vice", 0 - 5, "herd"))),
      Body(ServiceText(<< <<K_score, PyInt(4)>>, <<K_category, PyStr(<<"learning">>)>>,
                        <<K_reason, PyStr(<<"grows">>)>> >>)),
      Body(ServiceText(<< <<K_category, PyStr(<<"vice">>)>>, <<K_score, PyInt(0 - 4)>> >>)) }

\* --limit: absent, or an int
Limits == {<<>>} \cup {<<L>> : L \in 0..(MaxRows + 1)}

\* "if limit:"
Truthy(lim) == lim # <<>> /\ lim[1] # 0

\* df.head(n), n >= 0
DfHead(frame, n) == SubSeq(frame, 1, IF n < Len(frame) THEN n ELSE Len(frame))

\* df after "if limit: df = df.head(limit)"
df == IF Truthy(limit) THEN DfHead(rows, limit[1]) ELSE rows

\* the row after row["ai_category"], row["ai_score"], row["ai_reason"] =
\* res.values(): the original cells and the three new ones in that order
EnrichedRow(fields, res) == [fields |-> fields, ai |-> DictValues(res)]

\* what one iteration did with the row
ProcEntry(fields, o) ==
    [fields |-> fields,
     classified |-> sentence_from_row(RowDict(fields)).exc = "none",
     res |-> o.res, fed |-> o.fed, exc |-> o.exc, notes |-> o.u.notes,
     called |-> o.called]

ProcessInit ==
    /\ rows \in SeqsUpTo(ProcessLines, MaxRows)
    /\ limit \in Limits
    /\ idx = 0
    /\ run = 1
    /\ traj = << <<>>, <<>> >>
    /\ enriched = <<>>
    /\ out = <<>>
    /\ streak = StreakNew /\ hist = <<>> /\ exc = "none"
    /\ cache = <<>> /\ writable = TRUE /\ seen = <<>> /\ lastCall = <<>> /\ sess = <<>>
    /\ TailUnused

\* one iteration of "for _, row in df.iterrows()"
ProcessStep(outcome, failAt) ==
    /\ exc = "none" /\ out = <<>>
    /\ idx < Len(df)
    /\ \E o \in {ProcessRow(streak, cache, writable, df[idx + 1], outcome, failAt)} :
           /\ idx' = idx + 1
           /\ cache' = o.files
           /\ streak' = o.streak
           /\ exc' = o.exc
           /\ hist' = IF o.fed
                      THEN Remember(hist, HistEntry(streak, DictGet(o.res, K_score).n, o.u))
                      ELSE hist
           /\ enriched' = IF o.res # <<>> /\ o.exc # "ValueError"
                          THEN Append(enriched, EnrichedRow(df[idx + 1], o.res))
                          ELSE enriched
           /\ traj' = [traj EXCEPT ![run] = Append(@, ProcEntry(df[idx + 1], o))]
    /\ UNCHANGED <<rows, run, limit, out, writable, seen, lastCall, sess, tailVars>>

ProcessIter ==
    \E outcome \in ProcessOutcomes, failAt \in NotifierFaults :
        ProcessStep(outcome, failAt)

\* pd.DataFrame(enriched).to_csv(out, index=False)
ProcessSave ==
    /\ exc = "none" /\ out = <<>>
    /\ idx = Len(df)
    /\ out' = <<enriched>>
    /\ UNCHANGED <<rows, idx, run, traj, limit, enriched, streakVars, cacheVars, tailVars>>

ProcessNext == ProcessIter \/ ProcessSave

SpecProcess == ProcessInit /\ [][ProcessNext]_vars

\* C12: a row of the frame whose timestamp cell is "timestamp" is skipped by
\* process: not classified, not fed to the Streak, not among the enriched
\* rows.
C12_HeaderRowSkipped ==
    /\ \A i \in 1..Len(traj[1]) :
           IsHeaderRow(RowDict(traj[1][i].fields)) =>
               ~traj[1][i].classified /\ ~traj[1][i].fed
    /\ \A j \in 1..Len(enriched) : ~IsHeaderRow(RowDict(enriched[j].fields))

\* the Classification as the three output columns should hold it
Columns(res) == <<DictGet(res, K_category), DictGet(res, K_score), DictGet(res, K_reason)>>

\* C15: the output file holds one row per row of the frame, in order, with
\* the original cells, and with ai_category, ai_score, ai_reason the
\* category, score and reason of the Classification fed to the Streak for
\* that row, whatever the order of its members.
C15_OutputColumns ==
    out # <<>> =>
        /\ Len(out[1]) = Len(df)
        /\ \A i \in 1..Len(out[1]) :
               /\ out[1][i].fields = df[i]
               /\ traj[1][i].fed
               /\ DictHas(traj[1][i].res, K_category)
               /\ out[1][i].ai = Columns(traj[1][i].res)

\* a row with an empty cell where event or details should be
Malformed(fields) == ~IsStr(fields[2]) \/ ~IsStr(fields[3])

\* C16: a row lacking event or details is skipped: the iteration raises
\* nothing, the row is not classified and not fed to the Streak.
C16_MalformedRowSkipped ==
    \A i \in 1..Len(traj[1]) :
        Malformed(traj[1][i].fields) =>
            /\ traj[1][i].exc = "none"
            /\ ~traj[1][i].classified
            /\ ~traj[1][i].fed

\* C17: sentence_from_row returns a sentence, and raises nothing, for every
\* row the driver hands it whose event is a string of one of the four rule
\* classes, its details a string or not.
C17_MapperTotal ==
    \A i \in 1..Len(traj[1]) :
        IsStr(traj[1][i].fields[2]) =>
            /\ traj[1][i].classified
            /\ traj[1][i].exc # "AttributeError"

\* min(L, N), or N when no limit is given
Expected == IF limit = <<>> \/ limit[1] > Len(rows) THEN Len(rows) ELSE limit[1]

\* C18: with a limit L >= 0 on N rows only the first min(L, N) rows are
\* iterated (classified, fed to the Streak) and written, in order; with no
\* limit all N are.
C18_RowLimit ==
    /\ idx <= Expected
    /\ \A i \in 1..Len(traj[1]) : traj[1][i].fields = rows[i]
    /\ out # <<>> =>
           /\ idx = Expected
           /\ Len(out[1]) = Expected
           /\ \A i \in 1..Len(out[1]) : out[1][i].fields = rows[i]

-----------------------------------------------------------------------------
(* SpecScenario: process on a cold cache over a log of five rows, two usage *)
(* rows of Writer and three rows of other activities, against a stub of the *)
(* service that answers for the i-th row with the i-th score of             *)
(* ScenarioScores.                                                          *)

ScenarioScores == <<5, 5, 0 - 5, 0 - 5, 0 - 5>>

WriterRows ==
    << Row(<<"t">>, <<"app_usage">>, <<"Writer", PIPE, "900">>),
       Row(<<"t">>, <<"app_usage">>, <<SPACE, "Writer", SPACE, PIPE, "1200">>) >>

\* rows of activities other than Writer
UnrelatedRows ==
    { Row(<<"t">>, <<"browser_tab", "_snapshot">>, <<"YouTube", PIPE, "url">>),
      Row(<<"t">>, <<"app_switch">>, <<"Chrome">>),
      Row(<<"t">>, <<"app_snapshot">>, <<"Finder">>) }

\* the stub's answers for the i-th row: the fixed score, any category
StubOutcomes(i) ==
    { Body(ServiceText(Classification(c, ScenarioScores[i], "stub"))) :
          c \in {"deep_work", "vice"} }

ScenarioInit ==
    /\ rows \in {WriterRows \o q : q \in [1..(Len(ScenarioScores) - Len(WriterRows)) -> UnrelatedRows]}
    /\ limit = <<>>
    /\ idx = 0
    /\ run = 1
    /\ traj = << <<>>, <<>> >>
    /\ enriched = <<>>
    /\ out = <<>>
    /\ streak = StreakNew /\ hist = <<>> /\ exc = "none"
    /\ cache = <<>> /\ writable = TRUE /\ seen = <<>> /\ lastCall = <<>> /\ sess = <<>>
    /\ TailUnused

ScenarioIter ==
    \E failAt \in NotifierFaults :
        /\ idx < Len(ScenarioScores)
        /\ \E outcome \in StubOutcomes(idx + 1) : ProcessStep(outcome, failAt)

ScenarioNext == ScenarioIter \/ ProcessSave

SpecScenario == ScenarioInit /\ [][ScenarioNext]_vars

\* C13: in the five-row scenario the rows 1 to 4 are fed to the Streak with
\* no call of notify, and row 5 with exactly one, the sustained-negative
\* one.
C13_Scenario ==
    \A i \in 1..Len(traj[1]) :
        /\ traj[1][i].fed
        /\ DictGet(traj[1][i].res, K_score).n = ScenarioScores[i]
        /\ traj[1][i].notes = IF i = Len(ScenarioScores) THEN <<"sustained_bad">> ELSE <<>>

\* the run to its end: the second Writer row answered from the cache, the
\* notification at row 5, the output written
C13_Witness ==
    /\ out # <<>> /\ Len(out[1]) = Len(ScenarioScores)
    /\ traj[1][1].called /\ ~traj[1][2].called
    /\ traj[1][5].notes = <<"sustained_bad">>
    /\ streak = [pos |-> 0, neg |-> 3, state |-> "bad"]

-----------------------------------------------------------------------------
(* SpecShared: two sessions (processes) calling classify for one sentence   *)
(* over the same CACHE_DIR, at first without a file for it.  The calls      *)
(* interleave at the file operations: p.exists(), p.read_text(), and the    *)
(* open-for-writing (which truncates) and write of p.write_text().  The     *)
(* service answers each call on its own.                                    *)

Sessions == {1, 2}

SharedSentence == SentenceOf(Row(<<"t">>, <<"app_usage">>, <<"Writer", PIPE, "900">>))

SharedOutcomes ==
    { TransportError,
      Body(ServiceText(Classification("deep_work", 5, "creates"))),
      Body(ServiceText(Classification("vice", 0 - 5, "herd"))) }

\* a session outside classify, with the value its last call returned
Idle(ret) == [pc |-> "idle", res |-> <<>>, ret |-> ret]

SharedInit ==
    /\ cache = <<>>
    /\ writable = TRUE
    /\ seen = <<>>
    /\ lastCall = <<>>
    /\ sess = [s \in Sessions |-> Idle(<<>>)]
    /\ streak = StreakNew /\ hist = <<>> /\ exc = "none"
    /\ BatchUnused /\ TailUnused

\* "if p.exists():"
SharedExists(s) ==
    /\ sess[s].pc = "idle"
    /\ sess' = [sess EXCEPT ![s].pc = IF Exists(cache, cache_path(SharedSentence))
                                      THEN "read" ELSE "call"]
    /\ UNCHANGED <<cache, seen>>

\* "return json.loads(p.read_text())"
SharedRead(s) ==
    /\ sess[s].pc = "read"
    /\ \E r \in {JsonLoads(cache[cache_path(SharedSentence)])} :
           IF r.exc = "none"
           THEN /\ sess' = [sess EXCEPT ![s] = Idle(<<r.val>>)]
                /\ seen' = IF seen = <<>> THEN <<r.val>> ELSE seen
           ELSE /\ sess' = [sess EXCEPT ![s].pc = "raised"]
                /\ UNCHANGED seen
    /\ UNCHANGED cache

\* "try: res = call_llm(...) except Exception: res = {fallback}"
SharedCall(s) ==
    /\ sess[s].pc = "call"
    /\ \E outcome \in SharedOutcomes :
           sess' = [sess EXCEPT ![s].pc = "open", ![s].res = Computed(outcome)]
    /\ UNCHANGED <<cache, seen>>

\* p.write_text(...): the file is opened for writing and is empty
SharedOpen(s) ==
    /\ sess[s].pc = "open"
    /\ cache' = WriteText(cache, cache_path(SharedSentence), <<>>)
    /\ sess' = [sess EXCEPT ![s].pc = "write"]
    /\ UNCHANGED seen

\* p.write_text(json.dumps(res)): the text is written; "return res"
SharedWrite(s) ==
    /\ sess[s].pc = "write"
    /\ cache' = WriteText(cache, cache_path(SharedSentence), JsonDumps(sess[s].res))
    /\ sess' = [sess EXCEPT ![s] = Idle(<<sess[s].res>>)]
    /\ seen' = IF seen = <<>> THEN <<sess[s].res>> ELSE seen

SharedNext ==
    /\ \E s \in Sessions :
           SharedExists(s) \/ SharedRead(s) \/ SharedCall(s) \/ SharedOpen(s) \/ SharedWrite(s)
    /\ UNCHANGED <<writable, lastCall, streakVars, batchVars, tailVars>>

SpecShared == SharedInit /\ [][SharedNext]_vars

\* C14: every classify call for the sentence, in either session, returns
\* the value the first call to return returned, none raises, and the file
\* of the sentence, once it holds a record, holds that value.
C14_SameClassification ==
    /\ \A s \in Sessions :
           /\ sess[s].pc # "raised"
           /\ sess[s].ret # <<>> => sess[s].ret = seen
    /\ \A p \in DOMAIN cache :
           (seen # <<>> /\ JsonLoads(cache[p]).exc = "none") =>
               JsonLoads(cache[p]).val = seen[1]

-----------------------------------------------------------------------------
(* SpecShutdown: main (both.py) with its two threads and the interrupt.     *)
(* The main thread starts the logger thread unless --no-log, runs           *)
(* evaluate_live inside the try, and on KeyboardInterrupt sets the stop     *)
(* event and joins the logger.  What the log holds is left open here:       *)
(* f.readline() finds a line or none, and the processing of a row returns   *)
(* or raises.  The signal is delivered at any moment; Python raises         *)
(* KeyboardInterrupt in the main thread at its next step.                   *)

\* the positions of the main thread inside "try: evaluate_live(...)"
InTry == {"open", "skip", "readline", "idle", "process"}

\* the positions of the main thread before the try
BeforeTry == {"start", "announce"}

ShutdownInit ==
    /\ no_log \in BOOLEAN
    /\ tail_start \in BOOLEAN
    /\ present = TRUE
    /\ mpc = "start"
    /\ lpc = "off"
    /\ stop_evt = FALSE
    /\ fopen = FALSE
    /\ sig = "none"
    /\ naps = 0
    /\ log = <<>> /\ fpos = 0 /\ fieldnames = None /\ pc = "off"
    /\ openLen = 0 /\ skipEnd = 0 /\ processed = <<>>
    /\ streak = StreakNew /\ hist = <<>> /\ exc = "none"
    /\ CacheUnused /\ BatchUnused

\* Ctrl-C: SIGINT reaches the process
Interrupt ==
    /\ sig = "none"
    /\ mpc \in BeforeTry \cup InTry
    /\ sig' = "pending"
    /\ UNCHANGED <<no_log, mpc, lpc, stop_evt, fopen, naps>>

\* "if not args.no_log: t = threading.Thread(...); t.start(); threads.append(t)"
MainStart ==
    /\ mpc = "start" /\ sig # "pending"
    /\ lpc' = IF no_log THEN "off" ELSE "begin"
    /\ mpc' = "announce"
    /\ UNCHANGED <<no_log, stop_evt, fopen, sig, naps>>

\* print("Evaluator running"); the try is entered and evaluate_live called
MainEnter ==
    /\ mpc = "announce" /\ sig # "pending"
    /\ mpc' = "open"
    /\ UNCHANGED <<no_log, lpc, stop_evt, fopen, sig, naps>>

\* "with open(LOG_PATH, "r", newline="") as f": the file is there, or not
MainOpen ==
    /\ mpc = "open" /\ sig # "pending"
    /\ \E found \in BOOLEAN :
           /\ fopen' = found
           /\ mpc' = IF ~found THEN "crashed" ELSE IF tail_start THEN "skip" ELSE "readline"
    /\ UNCHANGED <<no_log, lpc, stop_evt, sig, naps>>

\* "for _ in reader: pass"
MainSkip ==
    /\ mpc = "skip" /\ sig # "pending"
    /\ mpc' = "readline"
    /\ UNCHANGED <<no_log, lpc, stop_evt, fopen, sig, naps>>

\* "line = f.readline(); if not line:"
MainReadline ==
    /\ mpc = "readline" /\ sig # "pending"
    /\ \E got \in BOOLEAN : mpc' = IF got THEN "process" ELSE "idle"
    /\ UNCHANGED <<no_log, lpc, stop_evt, fopen, sig, naps>>

\* "time.sleep(0.5); continue"
MainIdle ==
    /\ mpc = "idle" /\ sig # "pending"
    /\ mpc' = "readline"
    /\ UNCHANGED <<no_log, lpc, stop_evt, fopen, sig, naps>>

\* the rest of the loop body: it returns to the loop, or an exception leaves
\* evaluate_live (the with block closes the file) and main
MainProcess ==
    /\ mpc = "process" /\ sig # "pending"
    /\ \E ok \in BOOLEAN :
           /\ mpc' = IF ok THEN "readline" ELSE "crashed"
           /\ fopen' = ok
    /\ UNCHANGED <<no_log, lpc, stop_evt, sig, naps>>

\* KeyboardInterrupt raised in the main thread: inside the try it unwinds
\* the with block and reaches the except clause, before the try it leaves
\* main
MainRaise ==
    /\ sig = "pending"
    /\ sig' = "raised"
    /\ mpc' = IF mpc \in InTry THEN "handler" ELSE "uncaught"
    /\ fopen' = FALSE
    /\ UNCHANGED <<no_log, lpc, stop_evt, naps>>

\* "print("Stopping"); stop_evt.set()"
MainHandler ==
    /\ mpc = "handler"
    /\ stop_evt' = TRUE
    /\ mpc' = "join"
    /\ UNCHANGED <<no_log, lpc, fopen, sig, naps>>

\* "for t in threads: t.join()", and main returns
MainJoin ==
    /\ mpc = "join"
    /\ lpc \in {"off", "exited"}
    /\ mpc' = "returned"
    /\ UNCHANGED <<no_log, lpc, stop_evt, fopen, sig, naps>>

\* the main thread left main with an exception: the process ends and takes
\* the daemon thread with it
InterpreterExit ==
    /\ mpc \in {"crashed", "uncaught"}
    /\ lpc \in {"begin", "check", "row", "sleep"}
    /\ lpc' = "killed"
    /\ UNCHANGED <<no_log, mpc, stop_evt, fopen, sig, naps>>

\* logger_thread starts: the file is opened for appending and gets its
\* header; where the platform's modules are missing the stub returns at once
LoggerBegin ==
    /\ lpc = "begin"
    /\ \E stub \in BOOLEAN : lpc' = IF stub THEN "exited" ELSE "check"
    /\ UNCHANGED <<no_log, mpc, stop_evt, fopen, sig, naps>>

\* "while not stop.is_set()" that never finds the event set
LoggerCheckMutIgnoresStop ==
    /\ lpc = "check"
    /\ lpc' = "row"
    /\ UNCHANGED <<no_log, mpc, stop_evt, fopen, sig, naps>>

\* "while not stop.is_set()"
LoggerCheck ==
    /\ lpc = "check"
    /\ lpc' = IF stop_evt THEN "exited" ELSE "row"
    /\ UNCHANGED <<no_log, mpc, stop_evt, fopen, sig, naps>>

\* the sample, "writer.writerow([ts,event,details]); f.flush()", and the
\* sleep begins
LoggerRow ==
    /\ lpc = "row"
    /\ lpc' = "sleep"
    /\ naps' = IF stop_evt /\ naps < MaxNaps THEN naps + 1 ELSE naps
    /\ UNCHANGED <<no_log, mpc, stop_evt, fopen, sig>>

\* "time.sleep(WIN_POLL_INTERVAL)" returns
LoggerSleep ==
    /\ lpc = "sleep"
    /\ lpc' = "check"
    /\ UNCHANGED <<no_log, mpc, stop_evt, fopen, sig, naps>>

MainThread ==
    \/ MainStart \/ MainEnter \/ MainOpen \/ MainSkip \/ MainReadline \/ MainIdle
    \/ MainProcess \/ MainRaise \/ MainHandler \/ MainJoin

LoggerThread == LoggerBegin \/ LoggerCheck \/ LoggerRow \/ LoggerSleep

ShutdownNext ==
    /\ Interrupt \/ MainThread \/ LoggerThread \/ InterpreterExit
    /\ UNCHANGED <<log, fpos, fieldnames, pc, tail_start, present, openLen, skipEnd, processed,
                   streakVars, cacheVars, batchVars>>

\* both threads keep running while they have a step to take
SpecShutdown ==
    /\ ShutdownInit /\ [][ShutdownNext]_vars
    /\ WF_vars(ShutdownNext /\ MainThread)
    /\ WF_vars(ShutdownNext /\ LoggerThread)

\* C19: an interrupt delivered while the main thread is in evaluate_live
\* leads to main returning; main returns from the handler only with the
\* file closed, the stop event set and the logger thread finished; and the
\* logger thread begins at most one sleep once the stop event is set.
C19_ShutdownCompletes ==
    /\ (sig = "pending" /\ mpc \in InTry) ~> (mpc = "returned")
    /\ [](mpc = "returned" => (~fopen /\ stop_evt /\ lpc \in {"off", "exited"}))
    /\ [](naps <= 1)

\* the interrupt caught, the logger thread joined after its last sleep
C19_Witness ==
    /\ mpc = "returned" /\ sig = "raised"
    /\ ~no_log /\ lpc = "exited" /\ naps = 1
    /\ stop_evt /\ ~fopen

-----------------------------------------------------------------------------
(* SpecStartup: main starting the logger thread and evaluate_live           *)
(* (tail_start=True) together, with LOG_PATH missing or empty.  The logger  *)
(* thread creates the file, writes the header into an empty file and then   *)
(* appends its samples; the evaluator opens the file, runs the initial skip *)
(* and polls.  The steps of the two interleave freely.                      *)

\* the rows logger_thread writes
LoggerRows ==
    { Row(<<"t">>, <<"app_snapshot">>, <<"Finder">>),
      Row(<<"t">>, <<"browser_tab", "_snapshot">>, <<"YouTube", PIPE, "url">>) }

StartupInit ==
    /\ present \in BOOLEAN
    /\ log = <<>>
    /\ tail_start = TRUE
    /\ pc = "open"
    /\ fpos = 0
    /\ fieldnames = None
    /\ openLen = 0
    /\ skipEnd = 0
    /\ processed = <<>>
    /\ no_log = FALSE /\ mpc = "off" /\ lpc = "begin"
    /\ stop_evt = FALSE /\ fopen = FALSE /\ sig = "none" /\ naps = 0
    /\ streak = StreakNew /\ hist = <<>> /\ exc = "none"
    /\ CacheUnused /\ BatchUnused

\* "with open(LOG_PATH, "a", newline="") as f": the file exists from now on
LogCreate ==
    /\ lpc = "begin"
    /\ present' = TRUE
    /\ lpc' = "header"
    /\ UNCHANGED <<log, fpos, fieldnames, pc, tail_start, openLen, skipEnd, processed,
                   no_log, mpc, stop_evt, fopen, sig, naps,
                   streakVars, cacheVars, batchVars>>

\* "if os.stat(LOG_PATH).st_size == 0: writer.writerow([header]); f.flush()"
LogHeader ==
    /\ lpc = "header"
    /\ log' = IF Len(log) = 0 THEN <<HEADER>> ELSE log
    /\ lpc' = "check"
    /\ UNCHANGED <<fpos, fieldnames, pc, tail_start, present, openLen, skipEnd, processed,
                   no_log, mpc, stop_evt, fopen, sig, naps,
                   streakVars, cacheVars, batchVars>>

\* one iteration of the logger's loop: "writer.writerow([ts,event,details]);
\* f.flush()"
LogRow ==
    \E line \in LoggerRows :
        /\ lpc = "check"
        /\ Len(log) < MaxLines
        /\ log' = Append(log, line)
        /\ UNCHANGED <<fpos, fieldnames, pc, tail_start, present, openLen, skipEnd, processed,
                       mainVars, streakVars, cacheVars, batchVars>>

\* evaluate_live: "with open(LOG_PATH, "r", newline="") as f:
\* reader = csv.DictReader(f)"
EvalOpen ==
    /\ pc = "open"
    /\ IF present
       THEN /\ pc' = "skip"
            /\ fopen' = TRUE
            /\ openLen' = Len(log)
            /\ UNCHANGED exc
       ELSE /\ pc' = "dead"
            /\ exc' = "FileNotFoundError"
            /\ UNCHANGED <<fopen, openLen>>
    /\ UNCHANGED <<log, fpos, fieldnames, tail_start, present, skipEnd, processed,
                   no_log, mpc, lpc, stop_evt, sig, naps,
                   streak, hist, cacheVars, batchVars>>

StartupNext == LogCreate \/ LogHeader \/ LogRow \/ EvalOpen \/ TailSkip \/ TailStep

SpecStartup == StartupInit /\ [][StartupNext]_vars

\* C22: started together with the logger on a missing or empty log, the
\* evaluator neither fails to open the file nor fails reading it, takes
\* timestamp, event, details as the columns, never hands the header to the
\* pipeline, and hands it every data row read after the initial skip once,
\* in order.
C22_StartupRace ==
    /\ exc \notin ReadErrors \cup {"FileNotFoundError"}
    /\ fieldnames \in {None, HEADER}
    /\ pc \in {"tail", "dead"} => processed = DataLines(skipEnd, fpos)

====
